---- MODULE Spec2Model ----
(***************************************************************************)
(* Model of the Xbox container store codec (xbox_fs.py, utils.py) and of   *)
(* the Steam -> Xbox save import (importer.py).                            *)
(*                                                                         *)
(* Representation.                                                         *)
(*   - a byte stream is a sequence of bytes 0..255 and a read position;    *)
(*   - a Python int is kept as its little-endian base-256 numeral without  *)
(*     trailing zero bytes (0 is <<>>, 5 is <<5>>, 300 is <<44, 1>>), so   *)
(*     that 32- and 64-bit fields keep their full width;                   *)
(*   - a Python str is a sequence of code points; a code point above       *)
(*     0xFFFF takes two UTF-16 code units, as in str.encode("utf-16-le");  *)
(*   - a UUID is its sequence of 16 bytes (UUID.bytes).                    *)
(***************************************************************************)
EXTENDS Integers, Sequences, FiniteSets, TLC

Min(a, b) == IF a < b THEN a ELSE b

\* n copies of x
Rep(x, n) == [i \in 1..n |-> x]

RECURSIVE Concat(_)
\* the concatenation of a sequence of sequences
Concat(ss) == IF ss = <<>> THEN <<>> ELSE Head(ss) \o Concat(Tail(ss))

NoDup(s) == \A i, j \in 1..Len(s) : i # j => s[i] # s[j]

-----------------------------------------------------------------------------
(* Python ints as base-256 numerals *)

\* the largest element of a finite set of naturals, 0 for the empty set
Max0(S) == IF S = {} THEN 0 ELSE CHOOSE m \in S : \A k \in S : k <= m

\* s without its trailing elements equal to x
RStrip(s, x) == SubSeq(s, 1, Max0({i \in 1..Len(s) : s[i] # x}))

\* int.from_bytes(data, "little"): the most significant zero bytes do not
\* change the value
StripZeros(b) == RStrip(b, 0)

RECURSIVE U(_)
\* the numeral of a small natural number
U(n) == IF n = 0 THEN <<>> ELSE <<n % 256>> \o U(n \div 256)

\* the natural number of a numeral below 2^24; larger numerals are only ever
\* used as byte counts and loop bounds, where they exceed every stream
IsHuge(v) == Len(v) > 3
NatOf(v) ==
    (IF Len(v) >= 1 THEN v[1] ELSE 0)
    + (IF Len(v) >= 2 THEN v[2] * 256 ELSE 0)
    + (IF Len(v) >= 3 THEN v[3] * 65536 ELSE 0)

\* flag & 4 != 0
Bit2(v) == Len(v) >= 1 /\ (v[1] \div 4) % 2 = 1

-----------------------------------------------------------------------------
(* Byte streams: BinaryIO.read *)

\* stream.read(n) at position pos: at most n bytes, fewer at end of stream
ReadBytes(stream, pos, n) == SubSeq(stream, pos + 1, Min(pos + n, Len(stream)))
AfterRead(stream, pos, n) == Min(pos + n, Len(stream))

\* stream.read(length * 2) for a numeral length
ReadChars(stream, pos, v) ==
    IF IsHuge(v) THEN SubSeq(stream, pos + 1, Len(stream))
    ELSE ReadBytes(stream, pos, 2 * NatOf(v))
AfterChars(stream, pos, v) ==
    IF IsHuge(v) THEN Len(stream) ELSE AfterRead(stream, pos, 2 * NatOf(v))

-----------------------------------------------------------------------------
(* utils.py: integers *)

\* a reader that gives 0 whenever the read comes back short
read_uint_ZeroOnShort(stream, pos, width) ==
    LET data == ReadBytes(stream, pos, width)
    IN  [val |-> IF Len(data) < width THEN <<>> ELSE StripZeros(data),
         pos |-> AfterRead(stream, pos, width)]

\* read_u8 / read_u32 / read_u64: read(width); no data gives 0, and a short
\* read gives the value of the bytes that were there
read_uint(stream, pos, width) ==
    LET data == ReadBytes(stream, pos, width)
    IN  [val |-> IF data = <<>> THEN <<>> ELSE StripZeros(data),
         pos |-> AfterRead(stream, pos, width)]

read_u8(stream, pos)  == read_uint(stream, pos, 1)
read_u32(stream, pos) == read_uint(stream, pos, 4)
read_u64(stream, pos) == read_uint(stream, pos, 8)

\* value.to_bytes(width, "little"); OverflowError when value does not fit
FitsWidth(v, width) == Len(v) <= width
to_bytes(v, width) == v \o Rep(0, width - Len(v))

write_u8(v)  == to_bytes(v, 1)
write_u32(v) == to_bytes(v, 4)
write_u64(v) == to_bytes(v, 8)

-----------------------------------------------------------------------------
(* utils.py: UTF-16 LE strings *)

IsHighSurrogate(u) == u >= 55296 /\ u <= 56319
IsLowSurrogate(u)  == u >= 56320 /\ u <= 57343
IsAstral(cp) == cp >= 65536

\* the UTF-16 code units of one code point
UnitsOf(cp) ==
    IF IsAstral(cp)
    THEN <<55296 + ((cp - 65536) \div 1024), 56320 + ((cp - 65536) % 1024)>>
    ELSE <<cp>>

UnitBytes(u) == <<u % 256, u \div 256>>

\* the number of code units of the first i characters of s
UnitCount(s, i) == i + Cardinality({j \in 1..i : IsAstral(s[j])})

\* the code units of s
Utf16Units(s) ==
    IF \A i \in 1..Len(s) : ~IsAstral(s[i]) THEN s
    ELSE LET cnt == [i \in 0..Len(s) |-> UnitCount(s, i)]
         IN  [k \in 1..cnt[Len(s)] |->
                LET c == CHOOSE c \in 1..Len(s) : cnt[c - 1] < k /\ k <= cnt[c]
                IN  UnitsOf(s[c])[k - cnt[c - 1]]]

\* value.encode("utf-16-le")
Utf16Encode(s) ==
    LET us == Utf16Units(s)
    IN  [b \in 1..(2 * Len(us)) |-> UnitBytes(us[(b + 1) \div 2])[2 - (b % 2)]]

\* a str that encode("utf-16-le") accepts (no lone surrogate code point)
Encodable(s) ==
    \A i \in 1..Len(s) : ~IsHighSurrogate(s[i]) /\ ~IsLowSurrogate(s[i])

\* the code points of a sequence of code units; ok is FALSE on a surrogate
\* that is not part of a pair (UnicodeDecodeError)
DecodeUnits(us) ==
    LET n == Len(us)
        Second(k) == k > 1 /\ IsLowSurrogate(us[k]) /\ IsHighSurrogate(us[k - 1])
        WellFormed ==
            \A k \in 1..n :
                /\ IsHighSurrogate(us[k]) => (k < n /\ IsLowSurrogate(us[k + 1]))
                /\ IsLowSurrogate(us[k]) => Second(k)
        NotSecond(k) == ~Second(k)
        starts == SelectSeq([k \in 1..n |-> k], NotSecond)
        CodePoint(k) ==
            IF IsHighSurrogate(us[k])
            THEN 65536 + (us[k] - 55296) * 1024 + (us[k + 1] - 56320)
            ELSE us[k]
    IN  IF ~WellFormed THEN [ok |-> FALSE, val |-> <<>>]
        ELSE [ok |-> TRUE, val |-> [j \in 1..Len(starts) |-> CodePoint(starts[j])]]

\* raw.decode("utf-16-le"): an odd number of bytes is a UnicodeDecodeError
Utf16Decode(raw) ==
    IF Len(raw) % 2 = 1 THEN [ok |-> FALSE, val |-> <<>>]
    ELSE DecodeUnits([i \in 1..(Len(raw) \div 2) |-> raw[2 * i - 1] + 256 * raw[2 * i]])

\* s.rstrip("\0")
RStripNul(s) == RStrip(s, 0)

\* read_utf16_string: a u32 character count, then count * 2 bytes, decoded
read_utf16_string(stream, pos) ==
    LET length == read_u32(stream, pos)
        dec    == Utf16Decode(ReadChars(stream, length.pos, length.val))
    IN  IF length.val = <<>>
        THEN [ok |-> TRUE, val |-> <<>>, pos |-> length.pos]
        ELSE [ok |-> dec.ok, val |-> dec.val,
              pos |-> AfterChars(stream, length.pos, length.val)]

\* read_utf16_fixed_string: length * 2 bytes, decoded, trailing NULs stripped
read_utf16_fixed_string(stream, pos, length) ==
    LET dec == Utf16Decode(ReadBytes(stream, pos, length * 2))
    IN  [ok |-> dec.ok, val |-> RStripNul(dec.val),
         pos |-> AfterRead(stream, pos, length * 2)]

\* write_utf16_string: len(value) as u32, then the encoded value
write_utf16_string(value) == write_u32(U(Len(value))) \o Utf16Encode(value)

\* write_utf16_fixed_string: the encoded value, then NUL padding for the
\* characters missing up to length (nothing is cut off a longer value)
write_utf16_fixed_string(value, length) ==
    Utf16Encode(value)
    \o (IF length - Len(value) > 0 THEN Rep(0, (length - Len(value)) * 2) ELSE <<>>)

-----------------------------------------------------------------------------
(* xbox_fs.py: Container, one record of containers.index *)

UuidLen == 16

\* Container.__init__
Container(container_name, cloud_id, seq, flag, container_uuid, mtime, size) ==
    [container_name |-> container_name, cloud_id |-> cloud_id, seq |-> seq,
     flag |-> flag, container_uuid |-> container_uuid, mtime |-> mtime,
     size |-> size]

\* the outcome of a decoder: err is "none" and val is <<value>>, or err names
\* the exception raised and val is <<>>; pos is the stream position reached
Returned(value, pos) == [err |-> "none", val |-> <<value>>, pos |-> pos]
Raised(err, pos) == [err |-> err, val |-> <<>>, pos |-> pos]

\* a name check that lets every pair of names through
NamesDiffer_Never(container_name, container_name_null_term) == FALSE

\* container_name != container_name_null_term
NamesDiffer(container_name, container_name_null_term) ==
    container_name # container_name_null_term

\* the validation the other way round: raise when bit 2 is set and the cloud
\* id is empty, or bit 2 is clear and the cloud id is not empty
FlagCheckRaises_Inverse(cloud_id, flag) ==
    \/ (cloud_id = <<>> /\ Bit2(flag))
    \/ (cloud_id # <<>> /\ ~Bit2(flag))

\* the validation check: raise when the cloud id is empty and bit 2 is clear,
\* or the cloud id is not empty and bit 2 is set
FlagCheckRaises(cloud_id, flag) ==
    \/ (cloud_id = <<>> /\ ~Bit2(flag))
    \/ (cloud_id # <<>> /\ Bit2(flag))

\* Container.from_stream
Container_from_stream(stream, pos) ==
    LET n1 == read_utf16_string(stream, pos) IN
    IF ~n1.ok THEN Raised("UnicodeDecodeError", n1.pos) ELSE
    LET n2 == read_utf16_string(stream, n1.pos) IN
    IF ~n2.ok THEN Raised("UnicodeDecodeError", n2.pos) ELSE
    IF NamesDiffer(n1.val, n2.val) THEN Raised("NameMismatch", n2.pos) ELSE
    LET cl == read_utf16_string(stream, n2.pos) IN
    IF ~cl.ok THEN Raised("UnicodeDecodeError", cl.pos) ELSE
    LET sq == read_u8(stream, cl.pos)
        fl == read_u32(stream, sq.pos)
    IN
    IF FlagCheckRaises(cl.val, fl.val) THEN Raised("FlagCloudMismatch", fl.pos) ELSE
    LET ub   == ReadBytes(stream, fl.pos, UuidLen)
        upos == AfterRead(stream, fl.pos, UuidLen)
    IN
    IF Len(ub) # UuidLen THEN Raised("ValueError", upos) ELSE
    LET mt == read_u64(stream, upos)
        un == read_u64(stream, mt.pos)
    IN
    IF un.val # <<>> THEN Raised("NonZeroPadding", un.pos) ELSE
    LET sz == read_u64(stream, un.pos) IN
    Returned(Container(n1.val, cl.val, sq.val, fl.val, ub, mt.val, sz.val), sz.pos)

\* the fields Container.to_bytes can write: the strings encode and every
\* integer fits its width (OverflowError otherwise)
Container_writable(c) ==
    /\ Encodable(c.container_name) /\ Encodable(c.cloud_id)
    /\ FitsWidth(c.seq, 1) /\ FitsWidth(c.flag, 4)
    /\ FitsWidth(c.mtime, 8) /\ FitsWidth(c.size, 8)

\* Container.to_bytes
Container_to_bytes(c) ==
    write_utf16_string(c.container_name)
    \o write_utf16_string(c.container_name)
    \o write_utf16_string(c.cloud_id)
    \o write_u8(c.seq)
    \o write_u32(c.flag)
    \o c.container_uuid
    \o to_bytes(c.mtime, 8)
    \o write_u64(<<>>)
    \o write_u64(c.size)

-----------------------------------------------------------------------------
(* xbox_fs.py: ContainerIndex, the containers.index file *)

IndexVersion == 14

\* ContainerIndex.__init__
ContainerIndex(flag1, package_name, mtime, flag2, index_uuid, unknown, containers) ==
    [flag1 |-> flag1, package_name |-> package_name, mtime |-> mtime,
     flag2 |-> flag2, index_uuid |-> index_uuid, unknown |-> unknown,
     containers |-> containers]

\* a version check that accepts every version
VersionSupported_Any(version) == TRUE

\* version == 0xe
VersionSupported(version) == version = U(IndexVersion)

\* ContainerIndex.from_stream up to the loop: the version check and the
\* header fields; val is the header read, file_count included
Index_read_header(stream, pos) ==
    LET vr == read_u32(stream, pos) IN
    IF ~VersionSupported(vr.val) THEN Raised("UnsupportedVersion", vr.pos) ELSE
    LET fc == read_u32(stream, vr.pos)
        f1 == read_u32(stream, fc.pos)
        pn == read_utf16_string(stream, f1.pos)
    IN
    IF ~pn.ok THEN Raised("UnicodeDecodeError", pn.pos) ELSE
    LET mt == read_u64(stream, pn.pos)
        f2 == read_u32(stream, mt.pos)
        iu == read_utf16_string(stream, f2.pos)
    IN
    IF ~iu.ok THEN Raised("UnicodeDecodeError", iu.pos) ELSE
    LET un == read_u64(stream, iu.pos) IN
    Returned([version |-> vr.val, file_count |-> fc.val, flag1 |-> f1.val,
              package_name |-> pn.val, mtime |-> mt.val, flag2 |-> f2.val,
              index_uuid |-> iu.val, unknown |-> un.val], un.pos)

\* range(file_count) has an iteration left after done iterations
MoreRecords(file_count, done) == IsHuge(file_count) \/ done < NatOf(file_count)

\* the value ContainerIndex.from_stream returns after the loop
Index_of(h, containers) ==
    ContainerIndex(h.flag1, h.package_name, h.mtime, h.flag2, h.index_uuid,
                   h.unknown, containers)

RECURSIVE Index_read_records(_, _, _, _)
\* the loop of ContainerIndex.from_stream: the first record that raises ends
\* it, and the exception leaves from_stream
Index_read_records(stream, pos, h, containers) ==
    IF ~MoreRecords(h.file_count, Len(containers))
    THEN Returned(Index_of(h, containers), pos)
    ELSE LET c == Container_from_stream(stream, pos)
         IN  IF c.err # "none" THEN Raised(c.err, c.pos)
             ELSE Index_read_records(stream, c.pos, h, Append(containers, c.val[1]))

\* ContainerIndex.from_stream (and from_file on the bytes of the file)
ContainerIndex_from_stream(stream) ==
    LET h == Index_read_header(stream, 0)
    IN  IF h.err # "none" THEN h
        ELSE Index_read_records(stream, h.pos, h.val[1], <<>>)

\* the values ContainerIndex.write_file can write (no OverflowError, no
\* UnicodeEncodeError)
Index_writable(x) ==
    /\ FitsWidth(U(Len(x.containers)), 4)
    /\ FitsWidth(x.flag1, 4) /\ FitsWidth(x.flag2, 4)
    /\ FitsWidth(x.mtime, 8) /\ FitsWidth(x.unknown, 8)
    /\ Encodable(x.package_name) /\ Encodable(x.index_uuid)
    /\ \A i \in 1..Len(x.containers) : Container_writable(x.containers[i])

\* write_u32(output_file, len(self.containers))
Index_count_field(containers) == write_u32(U(Len(containers)))

\* ContainerIndex.write_file: the bytes of containers.index
ContainerIndex_write_file(x) ==
    write_u32(U(IndexVersion))
    \o Index_count_field(x.containers)
    \o write_u32(x.flag1)
    \o write_utf16_string(x.package_name)
    \o to_bytes(x.mtime, 8)
    \o write_u32(x.flag2)
    \o write_utf16_string(x.index_uuid)
    \o write_u64(x.unknown)
    \o Concat([i \in 1..Len(x.containers) |-> Container_to_bytes(x.containers[i])])

-----------------------------------------------------------------------------
(* xbox_fs.py: ContainerFile and ContainerFileList, the container.<seq> file *)

FileListVersion == 4
FixedNameLen == 64

\* "Data"
DataName == <<68, 97, 116, 97>>

None == <<>>
Some(x) == <<x>>

\* ContainerFile.__init__; data is None or Some(bytes); source_path is None
\* or Some(the bytes of the file at that path)
ContainerFile(name, uuid, data, source_path) ==
    [name |-> name, uuid |-> uuid, data |-> data, source_path |-> source_path]

\* ContainerFileList.__init__
ContainerFileList(seq, files) == [seq |-> seq, files |-> files]

\* UUID.bytes_le: the first three groups byte-reversed
bytes_le(u) ==
    <<u[4], u[3], u[2], u[1], u[6], u[5], u[8], u[7]>> \o SubSeq(u, 9, 16)

HexDigit(d) == IF d < 10 THEN 48 + d ELSE 55 + d

\* bytes.hex().upper(), as a string
HexUpper(b) ==
    [i \in 1..(2 * Len(b)) |->
        HexDigit(IF i % 2 = 1 THEN b[(i + 1) \div 2] \div 16 ELSE b[i \div 2] % 16)]

\* the name of the content file of an identifier: uuid.bytes_le.hex().upper()
ContentFileName(u) == HexUpper(bytes_le(u))

\* the decimal digits of a natural number, as a string
RECURSIVE Decimal(_)
Decimal(n) == IF n < 10 THEN <<48 + n>> ELSE Decimal(n \div 10) \o <<48 + (n % 10)>>

\* f"container.{self.seq}"
ManifestName(seq) == <<99, 111, 110, 116, 97, 105, 110, 101, 114, 46>> \o Decimal(seq)

IsDigits(s) == s # <<>> /\ \A i \in 1..Len(s) : s[i] >= 48 /\ s[i] <= 57

RECURSIVE ParseDecimal(_)
ParseDecimal(s) ==
    IF s = <<>> THEN 0 ELSE 10 * ParseDecimal(SubSeq(s, 1, Len(s) - 1)) + (s[Len(s)] - 48)

\* the seq from_stream takes from the file name: the digits after the last
\* dot (os.path.splitext, int); 0 when there is no such number
SeqOfName(filename) ==
    LET dot == Max0({i \in 2..Len(filename) : filename[i] = 46})
        ext == SubSeq(filename, dot + 1, Len(filename))
    IN  IF dot # 0 /\ IsDigits(ext) THEN ParseDecimal(ext) ELSE 0

\* a directory is a function from file names to file contents
EmptyDir == [n \in {} |-> <<>>]
WriteFile(dir, name, bytes) ==
    [n \in (DOMAIN dir) \cup {name} |-> IF n = name THEN bytes ELSE dir[n]]

\* an existence check that finds every file
FileMissing_Never(dir, name) == FALSE

\* not os.path.exists(file_content_path)
FileMissing(dir, name) == name \notin DOMAIN dir

\* open(path, "rb").read()
FileBytes(dir, name) == IF name \in DOMAIN dir THEN dir[name] ELSE <<>>

\* the bytes write_container puts in the content file: the source file when
\* there is a source_path, else the data, else nothing
ContentOf(file) ==
    IF file.source_path # None THEN file.source_path[1]
    ELSE IF file.data # None THEN file.data[1]
    ELSE <<>>

\* one iteration of the loop of ContainerFileList.from_stream
FileList_read_entry(stream, pos, dir) ==
    LET nm == read_utf16_fixed_string(stream, pos, FixedNameLen) IN
    IF ~nm.ok THEN Raised("UnicodeDecodeError", nm.pos) ELSE
    LET cpos == AfterRead(stream, nm.pos, UuidLen)
        ub   == ReadBytes(stream, cpos, UuidLen)
        upos == AfterRead(stream, cpos, UuidLen)
    IN
    IF Len(ub) # UuidLen THEN Raised("ValueError", upos) ELSE
    IF FileMissing(dir, ContentFileName(ub)) THEN Raised("MissingContent", upos) ELSE
    Returned(ContainerFile(nm.val, ub, Some(FileBytes(dir, ContentFileName(ub))), None), upos)

\* ContainerFileList.from_stream up to the loop: the version check and
\* the count
FileList_read_header(stream) ==
    LET vr == read_u32(stream, 0) IN
    IF vr.val # U(FileListVersion) THEN Raised("UnsupportedVersion", vr.pos) ELSE
    LET fc == read_u32(stream, vr.pos) IN
    Returned(fc.val, fc.pos)

RECURSIVE FileList_read_entries(_, _, _, _, _, _)
\* the loop of ContainerFileList.from_stream
FileList_read_entries(stream, pos, dir, seq, file_count, files) ==
    IF ~MoreRecords(file_count, Len(files))
    THEN Returned(ContainerFileList(seq, files), pos)
    ELSE LET f == FileList_read_entry(stream, pos, dir)
         IN  IF f.err # "none" THEN Raised(f.err, f.pos)
             ELSE FileList_read_entries(stream, f.pos, dir, seq, file_count,
                                        Append(files, f.val[1]))

\* ContainerFileList.from_stream on the file called filename in dir
ContainerFileList_from_stream(dir, filename) ==
    LET stream == FileBytes(dir, filename)
        h == FileList_read_header(stream)
    IN  IF h.err # "none" THEN h
        ELSE FileList_read_entries(stream, h.pos, dir, SeqOfName(filename), h.val[1], <<>>)

\* a fixed string write without the padding
FileList_entry_bytes_NoPad(file) ==
    Utf16Encode(file.name) \o Rep(0, 16) \o file.uuid

\* the bytes write_container writes to the manifest for one file
FileList_entry_bytes(file) ==
    write_utf16_fixed_string(file.name, FixedNameLen) \o Rep(0, 16) \o file.uuid

\* the bytes of container.<seq>
FileList_manifest_bytes(x) ==
    write_u32(U(FileListVersion)) \o write_u32(U(Len(x.files)))
    \o Concat([i \in 1..Len(x.files) |-> FileList_entry_bytes(x.files[i])])

RECURSIVE WriteContents(_, _)
\* the content files, written in list order (a later file with the same
\* identifier overwrites an earlier one)
WriteContents(dir, files) ==
    IF files = <<>> THEN dir
    ELSE WriteContents(WriteFile(dir, ContentFileName(Head(files).uuid), ContentOf(Head(files))),
                       Tail(files))

\* ContainerFileList.write_container: the directory after the call
ContainerFileList_write_container(x, dir) ==
    WriteContents(WriteFile(dir, ManifestName(x.seq), FileList_manifest_bytes(x)), x.files)

-----------------------------------------------------------------------------
(* xbox_fs.py: FileTime; importer.py: PalworldImporter *)

RECURSIVE AddBytes(_, _, _)
\* the sum of two numerals and a carry
AddBytes(a, b, carry) ==
    IF a = <<>> /\ b = <<>> THEN (IF carry = 0 THEN <<>> ELSE <<carry>>)
    ELSE LET x == (IF a = <<>> THEN 0 ELSE Head(a)) + (IF b = <<>> THEN 0 ELSE Head(b)) + carry
         IN  <<x % 256>> \o AddBytes(IF a = <<>> THEN <<>> ELSE Tail(a),
                                     IF b = <<>> THEN <<>> ELSE Tail(b), x \div 256)

\* 116444736000000000 = 0x019DB1DED53E8000, the FILETIME of the Unix epoch
EpochOffset == <<0, 128, 62, 213, 222, 177, 157, 1>>

\* FileTime.from_timestamp, the timestamp given in units of 100 ns
FileTime_from_timestamp(ticks) == StripZeros(AddBytes(U(ticks), EpochOffset, 0))

\* s.endswith(suffix)
EndsWith(s, suffix) ==
    Len(s) >= Len(suffix) /\ SubSeq(s, Len(s) - Len(suffix) + 1, Len(s)) = suffix

RECURSIVE RemoveAll(_, _)
\* s.replace(old, ""): every occurrence of old goes, left to right
RemoveAll(s, old) ==
    IF Len(s) < Len(old) THEN s
    ELSE IF SubSeq(s, 1, Len(old)) = old THEN RemoveAll(SubSeq(s, Len(old) + 1, Len(s)), old)
    ELSE <<Head(s)>> \o RemoveAll(Tail(s), old)

\* ".sav", "-", "Players-"
DotSav == <<46, 115, 97, 118>>
Dash == <<45>>
PlayersDash == <<80, 108, 97, 121, 101, 114, 115, 45>>

\* "Level", "LevelMeta", "LocalData", "WorldOption"
Level == <<76, 101, 118, 101, 108>>
LevelMeta == <<76, 101, 118, 101, 108, 77, 101, 116, 97>>
LocalData == <<76, 111, 99, 97, 108, 68, 97, 116, 97>>
WorldOption == <<87, 111, 114, 108, 100, 79, 112, 116, 105, 111, 110>>

\* files_to_process
files_to_process ==
    << [filename |-> Level \o DotSav, suffix |-> Level],
       [filename |-> LevelMeta \o DotSav, suffix |-> LevelMeta],
       [filename |-> LocalData \o DotSav, suffix |-> LocalData],
       [filename |-> WorldOption \o DotSav, suffix |-> WorldOption] >>

\* f"{save_name}-{suffix}"
WorldContainerName(save_name, suffix) == save_name \o Dash \o suffix

\* player_file.replace(".sav", "")
PlayerId(player_file) == RemoveAll(player_file, DotSav)

\* f"{save_name}-Players-{player_id}"
PlayerContainerName(save_name, player_file) ==
    save_name \o Dash \o PlayersDash \o PlayerId(player_file)

\* the n-th value uuid4() returns: each call gives a new identifier
Uuid4(n) == <<n>> \o Rep(0, UuidLen - 1)

\* the Container _create_container_entry returns for a source file (its
\* bytes and its mtime), when n calls of uuid4() were made before
CreatedEntry(source, container_name, n) ==
    Container(container_name, <<>>, U(1), U(5), Uuid4(n + 2),
              FileTime_from_timestamp(source.mtime), U(Len(source.bytes)))

\* the ContainerFileList _create_container_entry builds
CreatedFileList(source, n) ==
    ContainerFileList(1, <<ContainerFile(DataName, Uuid4(n + 1), None, Some(source.bytes))>>)

\* a _create_container_entry that also adds its entry to containers.index
StoreAfterCreate_WritesIndex(st, source, n) ==
    LET dname == ContentFileName(Uuid4(n + 2))
        new   == ContainerFileList_write_container(CreatedFileList(source, n), EmptyDir)
        x     == ContainerIndex_from_stream(st.index).val[1]
    IN  [dirs  |-> [d \in (DOMAIN st.dirs) \cup {dname} |->
                      IF d = dname THEN new ELSE st.dirs[d]],
         index |-> ContainerIndex_write_file(
                      [x EXCEPT !.containers = Append(@, CreatedEntry(source, DataName, n))])]

\* a _create_container_entry that names its directory by the hex of
\* container_uuid.bytes, not of bytes_le
StoreAfterCreate_PlainHex(st, source, n) ==
    LET dname == HexUpper(Uuid4(n + 2))
        new   == ContainerFileList_write_container(CreatedFileList(source, n), EmptyDir)
    IN  [st EXCEPT !.dirs = [d \in (DOMAIN st.dirs) \cup {dname} |->
                                IF d = dname THEN new ELSE st.dirs[d]]]

\* os.makedirs(containers_dir_path, exist_ok=True) and write_container
StoreAfterCreate(st, source, n) ==
    LET dname == ContentFileName(Uuid4(n + 2))
        old   == IF dname \in DOMAIN st.dirs THEN st.dirs[dname] ELSE EmptyDir
        new   == ContainerFileList_write_container(CreatedFileList(source, n), old)
    IN  [st EXCEPT !.dirs = [d \in (DOMAIN st.dirs) \cup {dname} |->
                                IF d = dname THEN new ELSE st.dirs[d]]]

\* new_container_names
NamesOf(containers) == {containers[i].container_name : i \in 1..Len(containers)}

\* a merge that drops no old entry
MergeContainers_KeepAll(containers, new) == containers \o new

\* a merge that puts the new entries first
MergeContainers_NewFirst(containers, new) ==
    LET Kept(c) == c.container_name \notin NamesOf(new)
    IN  new \o SelectSeq(containers, Kept)

\* the merge: the entries whose name is not a new name, then the new ones
MergeContainers(containers, new) ==
    LET Kept(c) == c.container_name \notin NamesOf(new)
    IN  SelectSeq(containers, Kept) \o new

-----------------------------------------------------------------------------
(* State *)

VARIABLES
    given,      \* the on-disk fields the bytes under decode were laid out from
    mem,        \* the in-memory value written out before the decode
    hdr,        \* the header the decoder has read
    stream,     \* the bytes of the file being decoded
    pos,        \* the read position in stream
    dpc,        \* where the decoder is
    acc,        \* the elements decoded so far (the local list of from_stream)
    out,        \* the decoder's outcome
    dir,        \* the directory of the container.<seq> file: name -> bytes
    ipc,            \* where import_save is
    dry_run,        \* PalworldImporter.dry_run
    steam,          \* the Steam save folder: its name and its files
    initial,        \* the index on disk when import_save was called
    store,          \* the target container path: containers.index and the directories
    backup,         \* the backup copy of the target container path, if taken
    container_index,  \* the local container_index of import_save
    new_containers,   \* the local new_containers of import_save
    step,           \* the position of the running loop of import_save
    next_uuid       \* the number of uuid4() calls made

codecVars == <<given, mem, hdr, stream, pos, dpc, acc, out, dir>>
importVars == <<ipc, dry_run, steam, initial, store, backup, container_index,
                new_containers, step, next_uuid>>
vars == <<codecVars, importVars>>

\* no import is running
ImportIdle ==
    /\ ipc = "idle" /\ dry_run = FALSE /\ steam = <<>> /\ initial = <<>>
    /\ store = <<>> /\ backup = <<>> /\ container_index = <<>>
    /\ new_containers = <<>> /\ step = 0 /\ next_uuid = 0


Pending == [err |-> "pending", val |-> <<>>, pos |-> 0]

-----------------------------------------------------------------------------
(* Inputs *)

MaxNameLen == 2

\* 'A', and U+1F600, which takes a surrogate pair
NameAlphabet == {65, 128512}

\* the strings over an alphabet of at most n characters
StrsUpTo(alphabet, n) == UNION {[1..k -> alphabet] : k \in 0..n}

Names == StrsUpTo(NameAlphabet, MaxNameLen)
CloudIds == {<<>>, <<67>>}
Flags == {U(0), U(1), U(4), U(5)}
Uuid(n) == <<n>> \o Rep(0, UuidLen - 1)

\* str16 as the format defines it: the count of UTF-16 code units, then the
\* code units
Str16(s) == write_u32(U(Len(Utf16Encode(s)) \div 2)) \o Utf16Encode(s)

\* the on-disk layout of one record, as Container.from_stream reads it, for
\* any content of its fields (the two names and the reserved field included)
RecordLayout(r) ==
    Str16(r.name) \o Str16(r.name_again) \o Str16(r.cloud_id)
    \o write_u8(r.seq) \o write_u32(r.flag) \o r.container_uuid
    \o write_u64(r.mtime) \o write_u64(r.reserved) \o write_u64(r.size)

RawRecords ==
    [name : Names, name_again : Names, cloud_id : CloudIds, seq : {U(1)},
     flag : Flags, container_uuid : {Uuid(7)}, mtime : {U(9)},
     reserved : {U(0), U(1)}, size : {U(3)}]

-----------------------------------------------------------------------------
(* Decoding one record: Container.from_stream on a record laid out on disk,  *)
(* whole or cut short at any byte                                            *)

InitRecord ==
    /\ given \in RawRecords
    /\ \E cut \in 0..Len(RecordLayout(given)) :
           stream = SubSeq(RecordLayout(given), 1, cut)
    /\ mem = <<>>
    /\ hdr = <<>>
    /\ pos = 0
    /\ dpc = "record"
    /\ acc = <<>>
    /\ out = Pending
    /\ dir = EmptyDir
    /\ ImportIdle

RecordDecode ==
    /\ dpc = "record"
    /\ out' = Container_from_stream(stream, pos)
    /\ pos' = out'.pos
    /\ dpc' = "done"
    /\ UNCHANGED <<given, mem, hdr, stream, acc, dir>>
    /\ UNCHANGED importVars

NextRecord == RecordDecode

SpecRecord == InitRecord /\ [][NextRecord]_vars

\* the stream holds the whole record
WholeRecord == stream = RecordLayout(given)

\* C5: a record whose two serialized names differ never decodes: from_stream
\* ends in an error and returns no entry, whichever of the names a reader
\* might have picked, and also when the record is cut short.
C5_NameMismatchFails ==
    (dpc = "done" /\ given.name # given.name_again)
        => (out.err # "none" /\ out.val = <<>>)

\* C5 witness: a whole record with two different names was decoded and the
\* name check raised
C5_Witness ==
    /\ dpc = "done" /\ WholeRecord
    /\ given.name # given.name_again
    /\ out.err = "NameMismatch"

\* C4 as stated: a record is accepted only when bit 2 is set if and only if
\* the cloud id is non-empty.
C4_AsStated ==
    (dpc = "done" /\ WholeRecord /\ out.err = "none")
        => (Bit2(given.flag) <=> given.cloud_id # <<>>)

\* C4 amended: a record is accepted only when bit 2 is set if and only if the
\* cloud id is EMPTY; a whole record with equal names fails the flag check
\* exactly when bit 2 is set with a non-empty cloud id or clear with an empty
\* one, and the two other combinations pass it.
C4_FlagSetIffCloudEmpty ==
    /\ (dpc = "done" /\ out.err = "none")
           => (Bit2(out.val[1].flag) <=> out.val[1].cloud_id = <<>>)
    /\ (dpc = "done" /\ WholeRecord /\ given.name = given.name_again)
           => /\ out.err = "FlagCloudMismatch"
                    <=> (Bit2(given.flag) <=> given.cloud_id # <<>>)
              /\ out.err = "none" => /\ out.val[1].flag = given.flag
                                     /\ out.val[1].cloud_id = given.cloud_id

\* C4 witness: a whole record with bit 2 set and an empty cloud id was
\* decoded and accepted
C4_Witness ==
    /\ dpc = "done" /\ WholeRecord /\ out.err = "none"
    /\ Bit2(given.flag) /\ given.cloud_id = <<>>

-----------------------------------------------------------------------------
(* Inputs of the index codec *)

MaxCount == 2

\* the sequences over a set of at most n elements
SeqsUpTo(S, n) == UNION {[1..k -> S] : k \in 0..n}

RawRecord(name, name_again, cloud_id, flag, reserved) ==
    [name |-> name, name_again |-> name_again, cloud_id |-> cloud_id,
     seq |-> U(1), flag |-> flag, container_uuid |-> Uuid(7), mtime |-> U(9),
     reserved |-> reserved, size |-> U(3)]

\* records on disk: two that pass every check, and one for each check that
\* fails (the names differ, flag and cloud id disagree, the reserved field
\* is not zero)
IndexRawRecords ==
    { RawRecord(<<65>>, <<65>>, <<>>, U(5), U(0)),
      RawRecord(<<128512>>, <<128512>>, <<67>>, U(1), U(0)),
      RawRecord(<<65>>, <<66>>, <<>>, U(5), U(0)),
      RawRecord(<<65>>, <<65>>, <<>>, U(1), U(0)),
      RawRecord(<<65>>, <<65>>, <<>>, U(5), U(1)) }

\* an index file on disk: any version, any declared count (also one that
\* is not the number of records that follow), any records
RawIndexes ==
    [version : {U(IndexVersion), U(IndexVersion - 1)},
     file_count : {U(k) : k \in 0..(MaxCount + 1)},
     flag1 : {U(1)}, package_name : {<<80>>}, mtime : {U(11)}, flag2 : {U(2)},
     index_uuid : {<<85>>}, unknown : {U(0)},
     records : SeqsUpTo(IndexRawRecords, MaxCount)]

\* the on-disk layout of the index header, as ContainerIndex.from_stream
\* reads it
IndexHeaderLayout(g) ==
    write_u32(g.version) \o write_u32(g.file_count) \o write_u32(g.flag1)
    \o Str16(g.package_name) \o write_u64(g.mtime) \o write_u32(g.flag2)
    \o Str16(g.index_uuid) \o write_u64(g.unknown)

IndexLayout(g) ==
    IndexHeaderLayout(g)
    \o Concat([i \in 1..Len(g.records) |-> RecordLayout(g.records[i])])

\* entries an index in memory can hold: each passes the checks of
\* Container.from_stream; the names are 'A' and U+1F600 'B' (a name as a
\* save folder can have)
MemContainers ==
    { Container(n, cf[1], U(1), cf[2], Uuid(7), U(9), U(3)) :
        n \in {<<65>>, <<128512, 66>>}, cf \in {<<<<>>, U(5)>>, <<<<67>>, U(1)>>} }

IndexValues ==
    { ContainerIndex(U(1), pn, U(11), U(2), <<85>>, U(0), cs) :
        pn \in {<<80>>, <<80, 128512>>}, cs \in SeqsUpTo(MemContainers, MaxCount) }

-----------------------------------------------------------------------------
(* The index codec: ContainerIndex.write_file (whole, or interrupted after   *)
(* any number of bytes) and ContainerIndex.from_stream, record by record     *)

InitIndex ==
    /\ \/ /\ given \in RawIndexes
          /\ mem = <<>>
          /\ stream = IndexLayout(given)
          /\ dpc = "header"
       \/ /\ given = <<>>
          /\ mem \in IndexValues
          /\ stream = <<>>
          /\ dpc = "write"
    /\ hdr = <<>>
    /\ pos = 0
    /\ acc = <<>>
    /\ out = Pending
    /\ dir = EmptyDir
    /\ ImportIdle

\* write_file runs to its end
IndexWrite ==
    /\ dpc = "write"
    /\ Index_writable(mem)
    /\ stream' = ContainerIndex_write_file(mem)
    /\ dpc' = "header"
    /\ UNCHANGED <<given, mem, hdr, pos, acc, out, dir>>
    /\ UNCHANGED importVars

\* write_file is interrupted: the file holds a proper prefix of its bytes
IndexWriteInterrupted ==
    /\ dpc = "write"
    /\ Index_writable(mem)
    /\ \E cut \in 0..(Len(ContainerIndex_write_file(mem)) - 1) :
           stream' = SubSeq(ContainerIndex_write_file(mem), 1, cut)
    /\ dpc' = "header"
    /\ UNCHANGED <<given, mem, hdr, pos, acc, out, dir>>
    /\ UNCHANGED importVars

\* from_stream, lines 124-136
IndexReadHeader ==
    /\ dpc = "header"
    /\ LET h == Index_read_header(stream, 0)
       IN  /\ pos' = h.pos
           /\ IF h.err # "none"
              THEN /\ out' = h
                   /\ dpc' = "failed"
                   /\ UNCHANGED hdr
              ELSE /\ hdr' = h.val[1]
                   /\ dpc' = "records"
                   /\ UNCHANGED out
    /\ UNCHANGED <<given, mem, stream, acc, dir>>
    /\ UNCHANGED importVars

\* one iteration of the loop of from_stream, lines 137-138
IndexReadRecord ==
    /\ dpc = "records"
    /\ MoreRecords(hdr.file_count, Len(acc))
    /\ LET c == Container_from_stream(stream, pos)
       IN  /\ pos' = c.pos
           /\ IF c.err # "none"
              THEN /\ out' = Raised(c.err, c.pos)
                   /\ dpc' = "failed"
                   /\ UNCHANGED acc
              ELSE /\ acc' = Append(acc, c.val[1])
                   /\ UNCHANGED <<out, dpc>>
    /\ UNCHANGED <<given, mem, hdr, stream, dir>>
    /\ UNCHANGED importVars

\* from_stream returns, lines 140-148
IndexReturn ==
    /\ dpc = "records"
    /\ ~MoreRecords(hdr.file_count, Len(acc))
    /\ out' = Returned(Index_of(hdr, acc), pos)
    /\ dpc' = "done"
    /\ UNCHANGED <<given, mem, hdr, stream, pos, acc, dir>>
    /\ UNCHANGED importVars

NextIndex ==
    \/ IndexWrite
    \/ IndexWriteInterrupted
    \/ IndexReadHeader
    \/ IndexReadRecord
    \/ IndexReturn

SpecIndex == InitIndex /\ [][NextIndex]_vars

\* the decode has ended, in a return or in an exception
Decoded == dpc \in {"done", "failed"}

\* the record-by-record decode is ContainerIndex.from_stream
IndexStepsAgree == Decoded => out = ContainerIndex_from_stream(stream)

\* the file holds everything write_file writes for mem
WholeWrite == mem # <<>> /\ dpc # "write" /\ stream = ContainerIndex_write_file(mem)

\* the file holds a proper prefix of what write_file writes for mem
CutWrite == mem # <<>> /\ dpc # "write" /\ stream # ContainerIndex_write_file(mem)

\* C6 as stated: decoding what write_file wrote for a valid index gives the
\* index back, field for field, and the count field written is the number
\* of entries.
C6_AsStated ==
    (Decoded /\ WholeWrite)
        => /\ out.err = "none"
           /\ out.val = <<mem>>
           /\ read_u32(stream, 4).val = U(Len(mem.containers))

\* C6, the part the code keeps for every index (not the claim): the count
\* field written is the number of entries, and an index whose strings hold
\* no character above U+FFFF decodes to itself.
C6_RoundTripBmp ==
    (Decoded /\ WholeWrite)
        => /\ read_u32(stream, 4).val = U(Len(mem.containers))
           /\ (/\ \A i \in 1..Len(mem.package_name) : ~IsAstral(mem.package_name[i])
               /\ \A k \in 1..Len(mem.containers) :
                     \A i \in 1..Len(mem.containers[k].container_name) :
                         ~IsAstral(mem.containers[k].container_name[i]))
                  => (out.err = "none" /\ out.val = <<mem>>)

\* C10 as stated: a proper prefix of a validly encoded index (one that
\* decodes to the index written when whole) never decodes: from_stream ends
\* in an error.
C10_AsStated ==
    (Decoded /\ CutWrite
        /\ ContainerIndex_from_stream(ContainerIndex_write_file(mem)).val = <<mem>>)
        => out.err # "none"

\* a record on disk passes the three checks of Container.from_stream
RecordPasses(r) ==
    /\ r.name = r.name_again
    /\ (Bit2(r.flag) <=> r.cloud_id = <<>>)
    /\ r.reserved = <<>>

\* the first of the declared records that fails a check or is not in the
\* file at all, 0 when there is none
FirstBad(g) ==
    LET bad == {k \in 1..NatOf(g.file_count) :
                    k > Len(g.records) \/ ~RecordPasses(g.records[k])}
    IN  IF bad = {} THEN 0 ELSE CHOOSE k \in bad : \A j \in bad : k <= j

\* the offset in the file of the end of record k
RecordEnd(g, k) ==
    Len(IndexHeaderLayout(g))
    + Len(Concat([i \in 1..Min(k, Len(g.records)) |-> RecordLayout(g.records[i])]))

\* C9: from_stream returns an index only if the version is 14 and every one
\* of the declared records decodes; otherwise it ends in an error at the
\* version field or at the first failing record k: the records before k and
\* no byte after record k have been read, and nothing is returned, not even
\* the entries decoded before k.
C9_AllOrNothing ==
    given # <<>> =>
        /\ dpc \in {"header", "records"} => out = Pending
        /\ dpc = "done" =>
              /\ given.version = U(IndexVersion)
              /\ FirstBad(given) = 0
              /\ out.err = "none"
              /\ Len(out.val[1].containers) = NatOf(given.file_count)
              /\ \A k \in 1..Len(out.val[1].containers) :
                    out.val[1].containers[k].container_name = given.records[k].name
        /\ dpc = "failed" =>
              /\ out.err # "none" /\ out.val = <<>>
              /\ IF given.version # U(IndexVersion)
                 THEN out.err = "UnsupportedVersion" /\ pos = 4 /\ acc = <<>>
                 ELSE /\ FirstBad(given) # 0
                      /\ Len(acc) = FirstBad(given) - 1
                      /\ pos > RecordEnd(given, FirstBad(given) - 1)
                             \/ FirstBad(given) > Len(given.records)
                      /\ pos <= RecordEnd(given, FirstBad(given))

\* C9 witness: the second of two declared records failed a check after the
\* first one was decoded, and the decode ended in an error
C9_Witness ==
    /\ given # <<>> /\ dpc = "failed"
    /\ FirstBad(given) = 2 /\ Len(given.records) = 2
    /\ Len(acc) = 1 /\ out.val = <<>>

-----------------------------------------------------------------------------
(* Inputs of the file list codec *)

MaxFiles == 2

\* a manifest on disk with its directory: the entries listed, and the
\* identifiers whose content file exists
RawManifests ==
    [seq : {1},
     entries : SeqsUpTo([name : {DataName}, uuid : {Uuid(1), Uuid(2), Uuid(3)}],
                        MaxFiles + 1),
     present : SUBSET {Uuid(1), Uuid(2), Uuid(3)}]

ManifestLayout(g) ==
    write_u32(U(FileListVersion)) \o write_u32(U(Len(g.entries)))
    \o Concat([i \in 1..Len(g.entries) |->
                  Utf16Encode(g.entries[i].name)
                  \o Rep(0, 2 * (FixedNameLen - Len(g.entries[i].name)))
                  \o Rep(0, 16) \o g.entries[i].uuid])

\* the directory of a manifest on disk; the content of the file of
\* identifier u is the first byte of u
ManifestDir(g) ==
    [n \in {ManifestName(g.seq)} \cup {ContentFileName(u) : u \in g.present} |->
        IF n = ManifestName(g.seq) THEN ManifestLayout(g)
        ELSE <<(CHOOSE u \in g.present : ContentFileName(u) = n)[1]>>]

\* names of files in a list in memory: "Data", a name of exactly 64
\* characters, one of 65, one ending in NUL, and one with U+1F600
FileNames ==
    { DataName, Rep(65, FixedNameLen), Rep(65, FixedNameLen + 1), <<65, 0>>,
      <<68, 128512>> }

\* files of a list in memory: content in memory, or streamed from a source
\* file
MemFiles ==
    { ContainerFile(n, u, c[1], c[2]) :
        n \in FileNames, u \in {Uuid(1), Uuid(2)},
        c \in {<<Some(<<1>>), None>>, <<None, Some(<<2, 3>>)>>} }

FileListValues ==
    { ContainerFileList(q, fs) : q \in {0, 1, 12}, fs \in SeqsUpTo(MemFiles, MaxFiles) }

-----------------------------------------------------------------------------
(* The file list codec: ContainerFileList.write_container and               *)
(* ContainerFileList.from_stream, entry by entry                            *)

\* the name of the manifest file that is decoded
FileName == ManifestName(IF mem # <<>> THEN mem.seq ELSE given.seq)

InitFileList ==
    /\ \/ /\ given \in RawManifests
          /\ mem = <<>>
          /\ dir = ManifestDir(given)
          /\ stream = ManifestLayout(given)
          /\ dpc = "fl_header"
       \/ /\ given = <<>>
          /\ mem \in FileListValues
          /\ dir = EmptyDir
          /\ stream = <<>>
          /\ dpc = "fl_write"
    /\ hdr = <<>>
    /\ pos = 0
    /\ acc = <<>>
    /\ out = Pending
    /\ ImportIdle

\* write_container into the empty directory, then open container.<seq>
FileListWrite ==
    /\ dpc = "fl_write"
    /\ dir' = ContainerFileList_write_container(mem, dir)
    /\ stream' = FileBytes(dir', FileName)
    /\ dpc' = "fl_header"
    /\ UNCHANGED <<given, mem, hdr, pos, acc, out>>
    /\ UNCHANGED importVars

\* from_stream, lines 191-204
FileListReadHeader ==
    /\ dpc = "fl_header"
    /\ LET h == FileList_read_header(stream)
       IN  /\ pos' = h.pos
           /\ IF h.err # "none"
              THEN /\ out' = h
                   /\ dpc' = "failed"
                   /\ UNCHANGED hdr
              ELSE /\ hdr' = [seq |-> SeqOfName(FileName), file_count |-> h.val[1]]
                   /\ dpc' = "fl_entries"
                   /\ UNCHANGED out
    /\ UNCHANGED <<given, mem, stream, acc, dir>>
    /\ UNCHANGED importVars

\* one iteration of the loop of from_stream, lines 206-222
FileListReadEntry ==
    /\ dpc = "fl_entries"
    /\ MoreRecords(hdr.file_count, Len(acc))
    /\ LET f == FileList_read_entry(stream, pos, dir)
       IN  /\ pos' = f.pos
           /\ IF f.err # "none"
              THEN /\ out' = Raised(f.err, f.pos)
                   /\ dpc' = "failed"
                   /\ UNCHANGED acc
              ELSE /\ acc' = Append(acc, f.val[1])
                   /\ UNCHANGED <<out, dpc>>
    /\ UNCHANGED <<given, mem, hdr, stream, dir>>
    /\ UNCHANGED importVars

\* from_stream returns, line 224
FileListReturn ==
    /\ dpc = "fl_entries"
    /\ ~MoreRecords(hdr.file_count, Len(acc))
    /\ out' = Returned(ContainerFileList(hdr.seq, acc), pos)
    /\ dpc' = "done"
    /\ UNCHANGED <<given, mem, hdr, stream, pos, acc, dir>>
    /\ UNCHANGED importVars

NextFileList ==
    \/ FileListWrite
    \/ FileListReadHeader
    \/ FileListReadEntry
    \/ FileListReturn

SpecFileList == InitFileList /\ [][NextFileList]_vars

\* the entry-by-entry decode is ContainerFileList.from_stream
FileListStepsAgree == Decoded => out = ContainerFileList_from_stream(dir, FileName)

\* two lists have the same seq and the same entries in the same order:
\* name, identifier and content bytes
SameList(y, x) ==
    /\ y.seq = x.seq
    /\ Len(y.files) = Len(x.files)
    /\ \A i \in 1..Len(x.files) :
          /\ y.files[i].name = x.files[i].name
          /\ y.files[i].uuid = x.files[i].uuid
          /\ ContentOf(y.files[i]) = ContentOf(x.files[i])

\* C7 as stated: for every list x, decoding the container.<seq> file that
\* write_container wrote gives a list with the same seq and entries as x.
C7_AsStated ==
    (Decoded /\ mem # <<>>) => (out.err = "none" /\ SameList(out.val[1], mem))

\* a name the 64-character field holds as it is: at most 64 characters, each
\* one UTF-16 code unit, and no NUL at the end
NameFitsField(n) ==
    /\ Len(n) <= FixedNameLen
    /\ \A i \in 1..Len(n) : ~IsAstral(n[i])
    /\ (n = <<>> \/ n[Len(n)] # 0)

\* C7 amended: the round trip holds for every list whose names fit the
\* 64-character field (at most 64 characters, each a single UTF-16 code
\* unit, no NUL at the end) and in which entries with the same identifier
\* have the same content bytes.
C7_RoundTrip ==
    (/\ Decoded /\ mem # <<>>
     /\ \A i \in 1..Len(mem.files) : NameFitsField(mem.files[i].name)
     /\ \A i, j \in 1..Len(mem.files) :
           mem.files[i].uuid = mem.files[j].uuid
               => ContentOf(mem.files[i]) = ContentOf(mem.files[j]))
        => (out.err = "none" /\ SameList(out.val[1], mem))

\* C7 witness: a list of two files with different identifiers, one with a
\* name of exactly 64 characters and one streamed from a source file, was
\* written and decoded to the same list
C7_Witness ==
    /\ dpc = "done" /\ mem # <<>> /\ Len(mem.files) = 2
    /\ mem.files[1].uuid # mem.files[2].uuid
    /\ Len(mem.files[1].name) = FixedNameLen
    /\ mem.files[2].source_path # None
    /\ SameList(out.val[1], mem)

\* the first entry of a manifest on disk whose content file is missing, 0
\* when there is none
FirstMissing(g) ==
    LET miss == {k \in 1..Len(g.entries) : g.entries[k].uuid \notin g.present}
    IN  IF miss = {} THEN 0 ELSE CHOOSE k \in miss : \A j \in miss : k <= j

\* the offset in the manifest of the end of entry k: the version, the count,
\* and k entries of a name, 16 reserved bytes and an identifier
EntryEnd(k) == 4 + 4 + k * (2 * FixedNameLen + 16 + UuidLen)

\* C8: from_stream fails at the first entry whose content file is missing:
\* it ends in an error, returns no list (the entries decoded before are
\* dropped with it), and the manifest has been read up to the end of that
\* entry's identifier and no further; it returns a list only when no
\* content file is missing.
C8_MissingContentAborts ==
    given # <<>> =>
        /\ dpc \in {"fl_header", "fl_entries"} => out = Pending
        /\ dpc = "done" =>
              /\ FirstMissing(given) = 0
              /\ Len(out.val[1].files) = Len(given.entries)
        /\ dpc = "failed" =>
              /\ FirstMissing(given) # 0
              /\ out.err = "MissingContent" /\ out.val = <<>>
              /\ Len(acc) = FirstMissing(given) - 1
              /\ pos = EntryEnd(FirstMissing(given))
        /\ (dpc = "fl_entries" /\ FirstMissing(given) # 0)
              => Len(acc) < FirstMissing(given)

\* C8 witness: a manifest of three entries, the content file of the second
\* one missing, failed after the first entry was decoded, with the stream at
\* the end of entry 2 and entry 3 unread
C8_Witness ==
    /\ given # <<>> /\ dpc = "failed"
    /\ Len(given.entries) = 3 /\ FirstMissing(given) = 2
    /\ Len(acc) = 1 /\ pos = EntryEnd(2) /\ pos < Len(stream)
    /\ out.val = <<>>

-----------------------------------------------------------------------------
(* Inputs of the import *)

MaxExisting == 2
MaxPlayers == 2

\* the sequences over S of at most n elements, no element twice (a directory
\* listing)
ListingsUpTo(S, n) == {l \in SeqsUpTo(S, n) : NoDup(l)}

\* the save folder is called "S"
SaveName == <<83>>

\* a source file: its bytes and its mtime (in units of 100 ns); files differ
\* in size
SourceFile(k) == [bytes |-> Rep(k, k), mtime |-> 10 + k]

\* which of the four world files the save folder has
WorldChoices == {{}, {1}, {2, 3, 4}}
WorldFiles(present) ==
    [f \in {files_to_process[k].filename : k \in present} |->
        SourceFile(CHOOSE k \in present : files_to_process[k].filename = f)]

\* files a Players folder can hold: "A.sav", "A.sav.sav", "n.txt"
PlayerFileNames == {<<65>> \o DotSav, <<65>> \o DotSav \o DotSav, <<110, 46, 116, 120, 116>>}
PlayerSource(player_file) == SourceFile(4 + Len(player_file))

\* the save folders: players is None without a Players folder, else
\* Some(os.listdir(players_dir))
SteamSaves ==
    { [save_name |-> SaveName, world |-> WorldFiles(w), players |-> pl] :
        w \in WorldChoices,
        pl \in {None} \cup {Some(l) : l \in ListingsUpTo(PlayerFileNames, MaxPlayers)} }

\* entries an index on disk can hold before the import: "S-Level" and
\* "S-LevelMeta" (not cloud-synced) and "T-Level" (cloud-synced); the same
\* name can be there more than once
ExistingKinds ==
    { <<WorldContainerName(SaveName, Level), <<>>, U(5)>>,
      <<WorldContainerName(SaveName, LevelMeta), <<>>, U(5)>>,
      <<WorldContainerName(<<84>>, Level), <<67>>, U(1)>> }

ExistingEntry(kind, i) ==
    Container(kind[1], kind[2], U(1), kind[3], Uuid(100 + i), U(9), U(i))

ExistingIndexes ==
    { ContainerIndex(U(1), <<80>>, U(11), U(2), <<85>>, U(0),
                     [i \in 1..Len(ks) |-> ExistingEntry(ks[i], i)]) :
        ks \in SeqsUpTo(ExistingKinds, MaxExisting) }

\* the target container path of an index: containers.index, and for every
\* entry its directory with container.1 and one content file
StoreOf(x) ==
    [index |-> ContainerIndex_write_file(x),
     dirs  |-> [d \in {ContentFileName(x.containers[i].container_uuid) : i \in 1..Len(x.containers)} |->
                  LET i == CHOOSE i \in 1..Len(x.containers) :
                               ContentFileName(x.containers[i].container_uuid) = d
                  IN  ContainerFileList_write_container(
                          ContainerFileList(1, <<ContainerFile(DataName, Uuid(150 + i), Some(<<i>>), None)>>),
                          EmptyDir)]]

\* datetime.datetime.now().timestamp(), in units of 100 ns
NowTicks == {40, 41}

-----------------------------------------------------------------------------
(* PalworldImporter.import_save, from the read of containers.index on *)

InitImport ==
    /\ given = <<>> /\ mem = <<>> /\ hdr = <<>> /\ acc = <<>> /\ out = Pending
    /\ dir = EmptyDir
    /\ dry_run \in BOOLEAN
    /\ steam \in SteamSaves
    /\ initial \in ExistingIndexes
    /\ store = StoreOf(initial)
    /\ ipc = "read_index"
    /\ stream = store.index /\ pos = 0 /\ dpc = "header"
    /\ backup = None
    /\ container_index = <<>>
    /\ new_containers = <<>>
    /\ step = 0
    /\ next_uuid = 0

\* 3. Read Container Index: ContainerIndex.from_file has returned or raised
ImportReadIndex ==
    /\ ipc = "read_index"
    /\ dpc \in {"done", "failed"}
    /\ IF dpc = "failed"
       THEN ipc' = "failed" /\ UNCHANGED container_index
       ELSE ipc' = "backup" /\ container_index' = out.val[1]
    /\ UNCHANGED <<dry_run, steam, initial, store, backup, new_containers, step, next_uuid>>
    /\ UNCHANGED codecVars

\* an import that goes on to its writes without the copy of step 4
ImportBackup_NoCopy ==
    /\ ipc = "backup"
    /\ ipc' = "world"
    /\ UNCHANGED <<dry_run, steam, initial, store, backup, container_index, new_containers, step, next_uuid>>
    /\ UNCHANGED codecVars

\* 4. Backup: shutil.copytree, unless dry_run; copytree can raise
ImportBackup ==
    /\ ipc = "backup"
    /\ IF dry_run
       THEN ipc' = "world" /\ UNCHANGED backup
       ELSE \/ ipc' = "world" /\ backup' = Some(store)
            \/ ipc' = "failed" /\ UNCHANGED backup
    /\ UNCHANGED <<dry_run, steam, initial, store, container_index, new_containers, step, next_uuid>>
    /\ UNCHANGED codecVars

\* a _create_container_entry that writes its directory in a dry run too
CreateContainerEntry_AlwaysWrites(source, container_name) ==
    /\ next_uuid' = next_uuid + 2
    /\ store' = StoreAfterCreate(store, source, next_uuid)
    /\ new_containers' = Append(new_containers, CreatedEntry(source, container_name, next_uuid))

\* _create_container_entry: two uuid4() calls, the directory and its files
\* unless dry_run, and the entry appended to new_containers
CreateContainerEntry(source, container_name) ==
    /\ next_uuid' = next_uuid + 2
    /\ store' = IF dry_run THEN store ELSE StoreAfterCreate(store, source, next_uuid)
    /\ new_containers' = Append(new_containers, CreatedEntry(source, container_name, next_uuid))

\* 5. one iteration of the loop over files_to_process
ImportWorldFile ==
    /\ ipc = "world"
    /\ step < Len(files_to_process)
    /\ LET f == files_to_process[step + 1]
       IN  IF f.filename \in DOMAIN steam.world
           THEN CreateContainerEntry(steam.world[f.filename],
                                     WorldContainerName(steam.save_name, f.suffix))
           ELSE UNCHANGED <<store, new_containers, next_uuid>>
    /\ step' = step + 1
    /\ UNCHANGED <<ipc, dry_run, steam, initial, backup, container_index>>
    /\ UNCHANGED codecVars

\* the loop over files_to_process is over: on to the Players folder
ImportPlayersStart ==
    /\ ipc = "world"
    /\ step = Len(files_to_process)
    /\ ipc' = "players"
    /\ step' = 0
    /\ UNCHANGED <<dry_run, steam, initial, store, backup, container_index, new_containers, next_uuid>>
    /\ UNCHANGED codecVars

\* one iteration of the loop over os.listdir(players_dir)
ImportPlayerFile ==
    /\ ipc = "players"
    /\ steam.players # None
    /\ step < Len(steam.players[1])
    /\ LET player_file == steam.players[1][step + 1]
       IN  IF EndsWith(player_file, DotSav)
           THEN CreateContainerEntry(PlayerSource(player_file),
                                     PlayerContainerName(steam.save_name, player_file))
           ELSE UNCHANGED <<store, new_containers, next_uuid>>
    /\ step' = step + 1
    /\ UNCHANGED <<ipc, dry_run, steam, initial, backup, container_index>>
    /\ UNCHANGED codecVars

\* 6. Update Request: unless dry_run, the merge, the new mtime and the
\* rewrite of containers.index
ImportMerge ==
    /\ ipc = "players"
    /\ IF steam.players = None THEN TRUE ELSE step = Len(steam.players[1])
    /\ IF dry_run
       THEN UNCHANGED <<container_index, store>>
       ELSE \E now \in NowTicks :
              /\ container_index' =
                    [container_index EXCEPT
                        !.containers = MergeContainers(container_index.containers, new_containers),
                        !.mtime = FileTime_from_timestamp(now)]
              /\ store' = [store EXCEPT !.index = ContainerIndex_write_file(container_index')]
    /\ ipc' = "done"
    /\ UNCHANGED <<dry_run, steam, initial, backup, new_containers, step, next_uuid>>
    /\ UNCHANGED codecVars

NextImport ==
    \/ IndexReadHeader
    \/ IndexReadRecord
    \/ IndexReturn
    \/ ImportReadIndex
    \/ ImportBackup
    \/ ImportWorldFile
    \/ ImportPlayersStart
    \/ ImportPlayerFile
    \/ ImportMerge

SpecImport == InitImport /\ [][NextImport]_vars

\* import_save has returned from a run that was not a dry run
ImportDone == ipc = "done" /\ ~dry_run

\* the entries of containers.index as the import left it
Written == ContainerIndex_from_stream(store.index).val[1].containers

\* the entries of containers.index before the import
Existing == initial.containers

NameSeq(containers) == [i \in 1..Len(containers) |-> containers[i].container_name]

\* an entry that was in the index before the import
IsOld(c) == \E i \in 1..Len(Existing) : Existing[i].container_uuid = c.container_uuid

\* the source files of the batch in batch order, each with the name of its
\* entry: the world files present, in the fixed order, then the .sav files
\* of the Players folder in listing order
BatchSources ==
    LET Present(f) == f.filename \in DOMAIN steam.world
        IsSav(player_file) == EndsWith(player_file, DotSav)
        w == SelectSeq(files_to_process, Present)
        p == IF steam.players = None THEN <<>> ELSE SelectSeq(steam.players[1], IsSav)
    IN  [i \in 1..Len(w) |->
            [container_name |-> WorldContainerName(steam.save_name, w[i].suffix),
             source |-> steam.world[w[i].filename]]]
        \o
        [i \in 1..Len(p) |->
            [container_name |-> PlayerContainerName(steam.save_name, p[i]),
             source |-> PlayerSource(p[i])]]

BatchNames == {BatchSources[i].container_name : i \in 1..Len(BatchSources)}

\* C1 as stated: after a non-dry-run import into an index of pairwise
\* distinct names, no two entries of the written index share a name, and
\* every name of the batch is on exactly one entry, one this import created
C1_AsStated ==
    LET w == Written IN
    (ImportDone /\ NoDup(NameSeq(Existing))) =>
        /\ NoDup(NameSeq(w))
        /\ \A n \in BatchNames :
              /\ Cardinality({i \in 1..Len(w) : w[i].container_name = n}) = 1
              /\ \A i \in 1..Len(w) :
                    w[i].container_name = n => ~IsOld(w[i])

\* the same, for the imports whose .sav player files give pairwise distinct
\* names
C1_DistinctBatch ==
    LET w == Written IN
    (ImportDone /\ NoDup(NameSeq(Existing)) /\ NoDup(NameSeq(BatchSources))) =>
        /\ NoDup(NameSeq(w))
        /\ \A n \in BatchNames :
              /\ Cardinality({i \in 1..Len(w) : w[i].container_name = n}) = 1
              /\ \A i \in 1..Len(w) :
                    w[i].container_name = n => ~IsOld(w[i])

\* C2 as stated: after the merge no two entries of the index share a name,
\* whatever the input index
C2_AsStated == ImportDone => NoDup(NameSeq(Written))

\* C2: after the merge no entry from the input index has a name of the
\* batch, whatever the input index; two entries of the merged index share a
\* name only if both come from the input index or both from the batch
C2_NoOldSharesNewName ==
    LET w == Written IN
    ImportDone =>
        /\ \A i \in 1..Len(w) :
              IsOld(w[i]) => w[i].container_name \notin BatchNames
        /\ \A i, j \in 1..Len(w) :
              (i # j /\ w[i].container_name = w[j].container_name)
                  => (IsOld(w[i]) <=> IsOld(w[j]))

\* a merge into an index that held a name of the batch twice
C2_Witness ==
    LET w == Written IN
    /\ ImportDone
    /\ \E i, j \in 1..Len(Existing) :
          /\ i # j
          /\ Existing[i].container_name = Existing[j].container_name
          /\ Existing[i].container_name \in BatchNames
    /\ Len(w) = Len(BatchSources)

\* the existing entries whose name is not in the batch, in their order
KeptExisting ==
    LET NotInBatch(c) == c.container_name \notin BatchNames
    IN  SelectSeq(Existing, NotInBatch)

\* C3: the merged index is the existing entries whose name is not in the
\* batch, unchanged and in their order, then the new entries in batch order
C3_MergeOrder ==
    LET w == Written IN
    ImportDone =>
        /\ Len(w) = Len(KeptExisting) + Len(BatchSources)
        /\ SubSeq(w, 1, Len(KeptExisting)) = KeptExisting
        /\ \A i \in 1..Len(BatchSources) :
              LET c == w[Len(KeptExisting) + i]
              IN  /\ c.container_name = BatchSources[i].container_name
                  /\ c.size = U(Len(BatchSources[i].source.bytes))
                  /\ c.mtime = FileTime_from_timestamp(BatchSources[i].source.mtime)
                  /\ ~IsOld(c)

\* existing [S-Level, S-LevelMeta] merged with new [S-Level, S-Players-A]
\* gives [S-LevelMeta, S-Level (new), S-Players-A]
C3_Witness ==
    LET w == Written IN
    /\ ImportDone
    /\ NameSeq(Existing) = <<WorldContainerName(SaveName, Level),
                             WorldContainerName(SaveName, LevelMeta)>>
    /\ NameSeq(BatchSources) = <<WorldContainerName(SaveName, Level),
                                 PlayerContainerName(SaveName, <<65>>)>>
    /\ Len(w) = 3
    /\ w[1] = Existing[2]
    /\ NameSeq(w) = <<WorldContainerName(SaveName, LevelMeta),
                            WorldContainerName(SaveName, Level),
                            PlayerContainerName(SaveName, <<65>>)>>
    /\ ~IsOld(w[2])

-----------------------------------------------------------------------------
(* utils.py: the readers and writers on their own *)

MaxStreamLen == 6
MaxWidth == 2
MaxValueLen == 3

\* the bytes of the streams: 0, the counts 1 and 2, and 'A'
StreamBytes == {0, 1, 2, 65}
Streams == SeqsUpTo(StreamBytes, MaxStreamLen)

\* the values written: strings of 'A', NUL and U+1F600, and names of 64 and
\* 65 characters
Values ==
    StrsUpTo({65, 0, 128512}, MaxValueLen)
        \cup {Rep(65, FixedNameLen), Rep(65, FixedNameLen + 1)}
Widths == (0..MaxWidth) \cup {FixedNameLen}

\* a reader is about to be called on a stream, or a writer on a value and a
\* width
InitUtils ==
    /\ \/ /\ stream \in Streams
          /\ given = <<>>
          /\ dpc = "read"
       \/ /\ stream = <<>>
          /\ given \in [value : Values, length : Widths]
          /\ dpc = "write"
    /\ mem = <<>> /\ hdr = <<>> /\ acc = <<>> /\ pos = 0
    /\ out = Pending
    /\ dir = EmptyDir
    /\ ImportIdle

\* the call of one reader or writer is over
UtilsReturn(op, length, res) ==
    /\ out' = [op |-> op, length |-> length, res |-> res]
    /\ dpc' = "done"
    /\ UNCHANGED <<given, mem, hdr, acc, dir>>
    /\ UNCHANGED importVars

ReadU8 ==
    /\ dpc = "read"
    /\ LET r == read_u8(stream, pos)
       IN  pos' = r.pos /\ UtilsReturn("read_uint", 1, r)
    /\ UNCHANGED stream

ReadU32 ==
    /\ dpc = "read"
    /\ LET r == read_u32(stream, pos)
       IN  pos' = r.pos /\ UtilsReturn("read_uint", 4, r)
    /\ UNCHANGED stream

ReadU64 ==
    /\ dpc = "read"
    /\ LET r == read_u64(stream, pos)
       IN  pos' = r.pos /\ UtilsReturn("read_uint", 8, r)
    /\ UNCHANGED stream

\* length is the count read_utf16_string reads first
ReadUtf16String ==
    /\ dpc = "read"
    /\ LET r == read_utf16_string(stream, pos)
       IN  pos' = r.pos /\ UtilsReturn("read_utf16_string", read_u32(stream, pos).val, r)
    /\ UNCHANGED stream

ReadUtf16FixedString ==
    /\ dpc = "read"
    /\ \E length \in 0..MaxWidth :
          LET r == read_utf16_fixed_string(stream, pos, length)
          IN  pos' = r.pos /\ UtilsReturn("read_utf16_fixed_string", length, r)
    /\ UNCHANGED stream

\* the stream holds what the writer wrote
WriteUtf16FixedString ==
    /\ dpc = "write"
    /\ stream' = write_utf16_fixed_string(given.value, given.length)
    /\ pos' = Len(stream')
    /\ UtilsReturn("write_utf16_fixed_string", given.length, stream')

\* the bytes write_container writes for one entry named given.value
WriteEntry ==
    /\ dpc = "write"
    /\ stream' = FileList_entry_bytes(ContainerFile(given.value, Uuid(1), Some(<<7>>), None))
    /\ pos' = Len(stream')
    /\ UtilsReturn("entry", FixedNameLen, stream')

NextUtils ==
    \/ ReadU8
    \/ ReadU32
    \/ ReadU64
    \/ ReadUtf16String
    \/ ReadUtf16FixedString
    \/ WriteUtf16FixedString
    \/ WriteEntry

SpecUtils == InitUtils /\ [][NextUtils]_vars

\* an integer reader was called with fewer bytes left than its width
ShortIntRead == dpc = "done" /\ out.op = "read_uint" /\ Len(stream) < out.length

\* C11 as stated: an integer read that runs past the end of the stream
\* yields zero, whether none or only some of its bytes remain
C11_AsStated == ShortIntRead => out.res.val = <<>>

\* C11: an integer read that runs past the end of the stream never fails and
\* yields the little-endian value of the bytes that remain: zero exactly when
\* none remain or all of them are zero; the stream is then at its end
C11_ShortReadValue ==
    ShortIntRead =>
        /\ FitsWidth(out.res.val, Len(stream))
        /\ to_bytes(out.res.val, Len(stream)) = stream
        /\ (out.res.val = <<>>) <=> (\A i \in 1..Len(stream) : stream[i] = 0)
        /\ out.res.pos = Len(stream)

\* a read_u32 of a stream that holds some bytes, not all zero, but not four
C11_Witness ==
    /\ ShortIntRead
    /\ out.length = 4
    /\ stream # <<>>
    /\ \E i \in 1..Len(stream) : stream[i] # 0
    /\ out.res.val # <<>>

\* the bytes left for the characters of a string read, and whether they are
\* fewer than the n * 2 bytes the read asks for (n is the count prefix of
\* read_utf16_string, the width of read_utf16_fixed_string)
BytesLeftForString ==
    IF out.op = "read_utf16_string" THEN Len(stream) - Min(4, Len(stream)) ELSE Len(stream)
ShortStringRead ==
    /\ dpc = "done"
    /\ out.op \in {"read_utf16_string", "read_utf16_fixed_string"}
    /\ IF out.op = "read_utf16_string"
       THEN IsHuge(out.length) \/ BytesLeftForString < 2 * NatOf(out.length)
       ELSE BytesLeftForString < 2 * out.length

\* C12 as stated: a string read with fewer than n * 2 bytes left fails; it
\* never returns a shorter string
C12_AsStated == ShortStringRead => ~out.res.ok

\* what the readers do then: they fail only when an odd number of bytes is
\* left, and otherwise return the characters that are there
C12_ShortStringReturned ==
    ShortStringRead =>
        /\ out.res.ok <=> (BytesLeftForString % 2 = 0)
        /\ out.res.ok => Len(out.res.val) <= BytesLeftForString \div 2

\* C13 as stated: write_utf16_fixed_string writes exactly length * 2 bytes
\* for every value, and every entry write_container writes takes
\* 128 + 16 + 16 bytes of the manifest
C13_AsStated ==
    /\ (dpc = "done" /\ out.op = "write_utf16_fixed_string")
          => Len(out.res) = given.length * 2
    /\ (dpc = "done" /\ out.op = "entry")
          => Len(out.res) = 2 * FixedNameLen + 16 + UuidLen

\* the same for the values of at most length characters, each one UTF-16
\* code unit: these are written whole and NUL-padded to length * 2 bytes
C13_PaddedWhenFits ==
    (/\ dpc = "done"
     /\ out.op = "write_utf16_fixed_string"
     /\ Len(given.value) <= given.length
     /\ \A i \in 1..Len(given.value) : ~IsAstral(given.value[i]))
        => /\ Len(out.res) = given.length * 2
           /\ SubSeq(out.res, 1, 2 * Len(given.value)) = Utf16Encode(given.value)
           /\ \A i \in (2 * Len(given.value) + 1)..Len(out.res) : out.res[i] = 0

-----------------------------------------------------------------------------
(* import_save: the order of its writes *)

\* the store before the import
InitialStore == StoreOf(initial)

\* the container directories the import has created
NewDirs == (DOMAIN store.dirs) \ (DOMAIN InitialStore.dirs)

\* the directories the entries of containers.index, as it is on disk, name
ReferencedDirs ==
    LET x == ContainerIndex_from_stream(store.index).val[1].containers
    IN  {ContentFileName(x[i].container_uuid) : i \in 1..Len(x)}

\* import_save runs without dry_run and has not reached the index rewrite
BeforeRewrite == ~dry_run /\ ipc \in {"read_index", "backup", "world", "players"}

\* C14: at every point of a non-dry-run import before the index rewrite,
\* containers.index is as it was before the import and names none of the
\* directories the import has created; the step that rewrites the index is
\* the last step of the import and writes nothing else
C14_IndexRewrittenLast ==
    /\ [](BeforeRewrite =>
            /\ store.index = InitialStore.index
            /\ NewDirs \cap ReferencedDirs = {})
    /\ [][store'.index # store.index =>
            (ipc = "players" /\ ipc' = "done" /\ store'.dirs = store.dirs)]_vars

\* all container directories of a batch of two or more are written and the
\* index rewrite has not started
C14_Witness ==
    /\ BeforeRewrite
    /\ ipc = "players"
    /\ IF steam.players = None THEN TRUE ELSE step = Len(steam.players[1])
    /\ Cardinality(NewDirs) >= 2
    /\ Cardinality(NewDirs) = Len(new_containers)
    /\ store.index = InitialStore.index

\* C15: in a non-dry-run import the backup is taken before any mutation:
\* nothing of the target is written until the backup is there, the backup is
\* the pre-import tree, and an import that failed (at the backup or before)
\* has changed nothing
C15_BackupFirst ==
    /\ [](~dry_run =>
            /\ backup # None => backup = Some(InitialStore)
            /\ store # InitialStore => backup = Some(InitialStore)
            /\ ipc = "failed" => store = InitialStore)
    /\ [][(~dry_run /\ store' # store) => (backup = Some(InitialStore) /\ backup' = backup)]_vars

\* the import has written a container directory, after its backup
C15_Witness ==
    /\ ~dry_run
    /\ ipc = "world"
    /\ NewDirs # {}
    /\ store # InitialStore
    /\ backup = Some(InitialStore)

\* the entry c is backed in the store st: its directory is there and holds
\* container.1, a manifest of one element, and the content file that element
\* names
Backed(st, c) ==
    LET d == ContentFileName(c.container_uuid) IN
    /\ d \in DOMAIN st.dirs
    /\ ManifestName(NatOf(c.seq)) \in DOMAIN st.dirs[d]
    /\ LET l == ContainerFileList_from_stream(st.dirs[d], ManifestName(NatOf(c.seq)))
       IN  /\ l.err = "none"
           /\ l.val[1].seq = 1
           /\ Len(l.val[1].files) = 1
           /\ ContentFileName(l.val[1].files[1].uuid) \in DOMAIN st.dirs[d]

\* C16: after a non-dry-run import every entry of the written index that
\* came from the batch is backed on disk by its directory, its container.1
\* of one element and that element's content file, and all of these were
\* there before the step that wrote the index
C16_NewEntriesBacked ==
    /\ [](ImportDone =>
            LET w == Written
            IN  \A i \in 1..Len(w) : ~IsOld(w[i]) => (w[i].seq = U(1) /\ Backed(store, w[i])))
    /\ [][(~dry_run /\ store'.index # store.index) =>
            LET w == ContainerIndex_from_stream(store'.index).val[1].containers
            IN  \A i \in 1..Len(w) : ~IsOld(w[i]) => Backed(store, w[i])]_vars

\* an import of three or more files is done, and the last entry of the
\* written index is a new one with its directory on disk
C16_Witness ==
    LET w == Written IN
    /\ ImportDone
    /\ Len(new_containers) >= 3
    /\ Len(w) >= 3
    /\ ~IsOld(w[Len(w)])
    /\ Backed(store, w[Len(w)])

-----------------------------------------------------------------------------
(* import_save, one import after another into the same container path *)

MaxUuids == 4

\* the save folders of these imports: "S" and one named U+1F600, with
\* Level.sav, and with or without a Players folder holding "A.sav"
ReSaves ==
    { [save_name |-> n, world |-> WorldFiles({1}), players |-> pl] :
        n \in {SaveName, <<128512>>},
        pl \in {None, Some(<<(<<65>> \o DotSav)>>)} }

\* the indexes the first import finds: none or one entry
ReIndexes == {x \in ExistingIndexes : Len(x.containers) <= 1}

InitReimport ==
    /\ given = <<>> /\ mem = <<>> /\ hdr = <<>> /\ acc = <<>> /\ out = Pending
    /\ dir = EmptyDir
    /\ dry_run = FALSE
    /\ steam \in ReSaves
    /\ initial \in ReIndexes
    /\ store = StoreOf(initial)
    /\ ipc = "read_index"
    /\ stream = store.index /\ pos = 0 /\ dpc = "header"
    /\ backup = None
    /\ container_index = <<>>
    /\ new_containers = <<>>
    /\ step = 0
    /\ next_uuid = 0

\* import_save is called again, on some save folder and the same container
\* path, after an import that succeeded
ImportAgain ==
    /\ ipc = "done"
    /\ ~dry_run
    /\ next_uuid < MaxUuids
    /\ steam' \in ReSaves
    /\ ipc' = "read_index"
    /\ stream' = store.index /\ pos' = 0 /\ dpc' = "header"
    /\ hdr' = <<>> /\ acc' = <<>> /\ out' = Pending
    /\ backup' = None
    /\ container_index' = <<>>
    /\ new_containers' = <<>>
    /\ step' = 0
    /\ UNCHANGED <<given, mem, dir, dry_run, initial, store, next_uuid>>

NextReimport ==
    \/ NextImport
    \/ ImportAgain

SpecReimport == InitReimport /\ [][NextReimport]_vars

\* C17 as stated: after any sequence of successful non-dry-run imports the
\* containers.index on disk decodes without error, and no later import fails
\* at the read of the index
C17_AsStated ==
    /\ ipc = "done" => ContainerIndex_from_stream(store.index).err = "none"
    /\ ~(ipc = "failed" /\ dpc = "failed")

\* the same for the indexes whose names have no character above U+FFFF: the
\* entries _create_container_entry made pass every check of from_stream
C17_BmpDecodable ==
    (/\ ipc = "done"
     /\ \A i \in 1..Len(container_index.containers) :
           \A k \in 1..Len(container_index.containers[i].container_name) :
               ~IsAstral(container_index.containers[i].container_name[k]))
        => ContainerIndex_from_stream(store.index) = Returned(container_index, Len(store.index))

-----------------------------------------------------------------------------
(* import_save with dry_run *)

\* C18: with dry_run set, import_save changes nothing on disk and nothing in
\* the decoded index: no backup, no container directory or file, no rewrite
\* of containers.index, and the entries and the mtime of the index in memory
\* stay as they were read
C18_DryRunChangesNothing ==
    /\ [](dry_run =>
            /\ store = InitialStore
            /\ backup = None
            /\ container_index # <<>> =>
                  /\ container_index.containers = initial.containers
                  /\ container_index.mtime = initial.mtime)
    /\ [][dry_run =>
            /\ store' = store
            /\ backup' = backup
            /\ container_index # <<>> => container_index' = container_index]_vars

\* a dry run of an import of two or more files ran to its end
C18_Witness ==
    /\ dry_run
    /\ ipc = "done"
    /\ Len(new_containers) >= 2
    /\ store = InitialStore
    /\ container_index = initial

====
